---- MODULE Spec2Model ----
(***************************************************************************)
(* Model of src/src/js/modules/scanner/barcode-scanner.js: the camera      *)
(* barcode scanner (start/stop lifecycle, the tick loop with its idle      *)
(* watchdog, the duplicate filter of processCode and the product lookup).  *)
(*                                                                         *)
(* One JavaScript task (a public call, a timer callback, the continuation  *)
(* after an await) is one action: the event loop runs each task to         *)
(* completion before the next one starts.                                  *)
(*                                                                         *)
(* Time is counted in abstract clock units.  The code reads the timestamp  *)
(* lastCodeFound only in differences Date.now() - lastCodeFound, compared  *)
(* with a configured timeout, so the model keeps that difference,          *)
(* sinceCodeFound, and stops counting at Horizon, which is larger than     *)
(* every timeout: lastCodeFound = Date.now() reads sinceCodeFound = 0.     *)
(* The DOM elements that init() looks up are assumed to exist.             *)
(***************************************************************************)
EXTENDS Integers, Sequences, FiniteSets, Bags, TLC

\* ---------------------------------------------------------------- bounds
\* start() is called only while fewer than MaxStarts streams have been
\* requested and not refused.
MaxStarts == 2
\* A frame shows a barcode only while fewer than MaxInFlight lookups of that
\* barcode are pending.
MaxInFlight == 1

\* --------------------------------------------------- program constants
\* decodeBarcode() runs on every DecodeEvery-th sampled frame.
DecodeEvery == 10

\* Decoded payloads: code.data of jsQR (non-empty payloads).
Codes == {"A", "B"}

\* The values init(options) merges into config, in clock units.  A clock
\* unit is of the order of codeValidTimeout (2000 ms by default), against
\* which the default scanInterval (100 ms) is 0.
ScanIntervals == {0}
ScanTimeouts == {0, 2}
CodeValidTimeouts == {1}

\* The first elapsed time above every configured timeout.
Horizon ==
  (CHOOSE t \in ScanTimeouts \cup CodeValidTimeouts :
     \A u \in ScanTimeouts \cup CodeValidTimeouts : u <= t) + 1

VARIABLES
  config,        \* [scanInterval, scanTimeout, codeValidTimeout]
  isScanning,
  activeStream,  \* 0 is null, otherwise the index of a stream in streams
  streams,       \* streams[i]: how often track.stop() ran on stream i (0: live)
  acquiring,     \* start() calls suspended at await getUserMedia
  lastResult,
  sinceCodeFound, \* Date.now() - lastCodeFound, counted up to Horizon
  countResults,  \* countResults modulo DecodeEvery
  ticks,         \* bag of the delays left of the scheduled tick callbacks
  lookups,       \* bag of the barcodes whose fetch is in flight
  outputMessage, \* what the message element shows: [text, code], text one of
                 \* "" (the page as loaded), hidden (the element is hidden),
                 \* searching, not-found (of barcode code), camera-error
  productInfo,   \* barcode of the product card shown, NoProduct if none
  last           \* what the task that ran last did: [op, code, prev, after]
                 \* with op one of accept, suppress (processCode took or
                 \* dropped code, lastResult being prev, after clock units),
                 \* decode-raised, tick-timeout, lookup-failed (of barcode
                 \* code), start-fulfilled, start-rejected (how the promise
                 \* of a start() call was settled) and other

vars == <<config, isScanning, activeStream, streams, acquiring,
          lastResult, sinceCodeFound, countResults, ticks, lookups,
          outputMessage, productInfo, last>>

NoProduct == "<none>"

Op(o, c) == [op |-> o, code |-> c, prev |-> "", after |-> 0]

Decoded(o, c) ==
  [op |-> o, code |-> c, prev |-> lastResult, after |-> sinceCodeFound]

Msg(t, c) == [text |-> t, code |-> c]

One(x) == SetToBag({x})

LiveStreams == {i \in 1..Len(streams) : streams[i] = 0}

\* What decoding a frame can give: no code (jsQR returns null), an exception,
\* or a code with its payload.
Decodes ==
  {[kind |-> k, data |-> ""] : k \in {"null", "throws"}}
    \cup {[kind |-> "code", data |-> c] : c \in Codes}

Init ==
  /\ config \in [scanInterval : ScanIntervals, scanTimeout : ScanTimeouts,
                 codeValidTimeout : CodeValidTimeouts]
  /\ isScanning = FALSE
  /\ activeStream = 0
  /\ streams = <<>>
  /\ acquiring = 0
  /\ lastResult = ""
  /\ sinceCodeFound = 0
  /\ countResults = 0
  /\ ticks = EmptyBag
  /\ lookups = EmptyBag
  /\ outputMessage = Msg("", "")
  /\ productInfo = NoProduct
  /\ last = Op("other", "")

\* ------------------------------------------------------------- lifecycle

\* start(), up to its await: lines 98-113.
start ==
  /\ isScanning' = TRUE
  /\ lastResult' = ""
  /\ acquiring' = acquiring + 1

Start ==
  /\ acquiring + Len(streams) < MaxStarts
  /\ start
  /\ last' = Op("other", "")
  /\ UNCHANGED <<config, activeStream, streams, sinceCodeFound,
                 countResults, ticks, lookups, outputMessage, productInfo>>

\* getUserMedia resolves: the rest of start()'s try block, lines 114-127.
AcquireOk ==
  /\ acquiring > 0
  /\ acquiring' = acquiring - 1
  /\ streams' = Append(streams, 0)
  /\ activeStream' = Len(streams) + 1
  /\ ticks' = ticks (+) One(0)
  /\ last' = Op("start-fulfilled", "")
  /\ UNCHANGED <<config, isScanning, lastResult, sinceCodeFound,
                 countResults, lookups, outputMessage, productInfo>>

\* getUserMedia rejects: start()'s catch block, lines 128-132.  The block
\* does not throw again, so the promise of start() is fulfilled.
AcquireFail ==
  /\ acquiring > 0
  /\ acquiring' = acquiring - 1
  /\ outputMessage' = IF outputMessage.text = "hidden"
                        THEN outputMessage
                        ELSE Msg("camera-error", "")
  /\ last' = Op("start-fulfilled", "")
  /\ UNCHANGED <<config, isScanning, activeStream, streams,
                 lastResult, sinceCodeFound, countResults, ticks, lookups,
                 productInfo>>

\* stop(): lines 138-153.
stop ==
  /\ isScanning' = FALSE
  /\ IF activeStream # 0
       THEN /\ streams' = [streams EXCEPT ![activeStream] = @ + 1]
            /\ activeStream' = 0
       ELSE UNCHANGED <<streams, activeStream>>

Stop ==
  /\ stop
  /\ last' = Op("other", "")
  /\ UNCHANGED <<config, acquiring, lastResult, sinceCodeFound,
                 countResults, ticks, lookups, outputMessage, productInfo>>

\* ------------------------------------------------------------- scan loop

\* fetchProductByBarcode(), up to its await: lines 275-281.
fetchProductByBarcode(barcode) ==
  /\ outputMessage' = Msg("searching", "")
  /\ lookups' = lookups (+) One(barcode)

\* processCode with the window closed one clock unit early (>= for >).
processCode_inclusive(code) ==
  IF code # lastResult \/ sinceCodeFound >= config.codeValidTimeout
    THEN /\ lastResult' = code
         /\ sinceCodeFound' = 0
         /\ fetchProductByBarcode(code)
         /\ last' = Decoded("accept", code)
    ELSE /\ UNCHANGED <<lastResult, sinceCodeFound, outputMessage, lookups>>
         /\ last' = Decoded("suppress", code)

\* processCode that never takes the code it took last.
processCode_noretrigger(code) ==
  IF code # lastResult
    THEN /\ lastResult' = code
         /\ sinceCodeFound' = 0
         /\ fetchProductByBarcode(code)
         /\ last' = Decoded("accept", code)
    ELSE /\ UNCHANGED <<lastResult, sinceCodeFound, outputMessage, lookups>>
         /\ last' = Decoded("suppress", code)

\* processCode with one cooldown for all codes (the test on the value lost).
processCode_anycode(code) ==
  IF sinceCodeFound > config.codeValidTimeout
    THEN /\ lastResult' = code
         /\ sinceCodeFound' = 0
         /\ fetchProductByBarcode(code)
         /\ last' = Decoded("accept", code)
    ELSE /\ UNCHANGED <<lastResult, sinceCodeFound, outputMessage, lookups>>
         /\ last' = Decoded("suppress", code)

\* processCode that looks the code up even when it drops it.
processCode_alwaysfetch(code) ==
  IF code # lastResult \/ sinceCodeFound > config.codeValidTimeout
    THEN /\ lastResult' = code
         /\ sinceCodeFound' = 0
         /\ fetchProductByBarcode(code)
         /\ last' = Decoded("accept", code)
    ELSE /\ UNCHANGED <<lastResult, sinceCodeFound>>
         /\ fetchProductByBarcode(code)
         /\ last' = Decoded("suppress", code)

\* processCode that takes no code while a lookup is pending.
processCode_serial(code) ==
  IF lookups = EmptyBag
       /\ (code # lastResult \/ sinceCodeFound > config.codeValidTimeout)
    THEN /\ lastResult' = code
         /\ sinceCodeFound' = 0
         /\ fetchProductByBarcode(code)
         /\ last' = Decoded("accept", code)
    ELSE /\ UNCHANGED <<lastResult, sinceCodeFound, outputMessage, lookups>>
         /\ last' = Decoded("suppress", code)

\* processCode(): lines 242-268.
processCode(code) ==
  IF code # lastResult \/ sinceCodeFound > config.codeValidTimeout
    THEN /\ lastResult' = code
         /\ sinceCodeFound' = 0
         /\ fetchProductByBarcode(code)
         /\ last' = Decoded("accept", code)
    ELSE /\ UNCHANGED <<lastResult, sinceCodeFound, outputMessage, lookups>>
         /\ last' = Decoded("suppress", code)

\* decodeBarcode that forgets the code taken last when decoding raises.
decodeBarcode_resets ==
  \E decoded \in Decodes :
    IF decoded.kind = "code"
      THEN /\ CopiesIn(decoded.data, lookups) < MaxInFlight
           /\ processCode(decoded.data)
      ELSE /\ lastResult' = IF decoded.kind = "throws" THEN "" ELSE lastResult
           /\ UNCHANGED <<sinceCodeFound, outputMessage, lookups>>
           /\ last' = Op(IF decoded.kind = "throws" THEN "decode-raised"
                                                    ELSE "other", "")

\* decodeBarcode(): lines 203-221.
decodeBarcode ==
  \E decoded \in Decodes :
    IF decoded.kind = "code"
      THEN /\ CopiesIn(decoded.data, lookups) < MaxInFlight
           /\ processCode(decoded.data)
      ELSE /\ UNCHANGED <<lastResult, sinceCodeFound, outputMessage, lookups>>
           /\ last' = Op(IF decoded.kind = "throws" THEN "decode-raised"
                                                    ELSE "other", "")

\* The body of tick() once both early returns are passed, up to the
\* scheduling of the next tick: lines 168-192.  ready is whether the video
\* has a frame (video.readyState = HAVE_ENOUGH_DATA).
sample(ready) ==
  IF ready
    THEN /\ IF countResults % DecodeEvery = 0
              THEN decodeBarcode
              ELSE /\ UNCHANGED <<lastResult, sinceCodeFound, outputMessage,
                                  lookups>>
                   /\ last' = Op("other", "")
         /\ countResults' = (countResults + 1) % DecodeEvery
    ELSE /\ UNCHANGED <<lastResult, sinceCodeFound, outputMessage, lookups,
                        countResults>>
         /\ last' = Op("other", "")

\* tick without its first line, the return when the scanner is off.
tick_unguarded ==
  IF config.scanTimeout > 0 /\ sinceCodeFound > config.scanTimeout
    THEN /\ stop
         /\ ticks' = ticks (-) One(0)
         /\ last' = Op("tick-timeout", "")
         /\ UNCHANGED <<lastResult, sinceCodeFound, outputMessage, lookups,
                        countResults>>
    ELSE /\ \E ready \in BOOLEAN : sample(ready)
         /\ ticks' = (ticks (-) One(0)) (+) One(config.scanInterval)
         /\ UNCHANGED <<isScanning, activeStream, streams>>

\* tick without the idle watchdog.
tick_nowatchdog ==
  IF ~isScanning
    THEN /\ ticks' = ticks (-) One(0)
         /\ last' = Op("other", "")
         /\ UNCHANGED <<isScanning, activeStream, streams, lastResult,
                        sinceCodeFound, outputMessage, lookups, countResults>>
    ELSE /\ \E ready \in BOOLEAN : sample(ready)
         /\ ticks' = (ticks (-) One(0)) (+) One(config.scanInterval)
         /\ UNCHANGED <<isScanning, activeStream, streams>>

\* tick whose watchdog ignores that scanTimeout = 0 switches it off.
tick_alwayswatch ==
  IF ~isScanning
    THEN /\ ticks' = ticks (-) One(0)
         /\ last' = Op("other", "")
         /\ UNCHANGED <<isScanning, activeStream, streams, lastResult,
                        sinceCodeFound, outputMessage, lookups, countResults>>
    ELSE IF sinceCodeFound > config.scanTimeout
      THEN /\ stop
           /\ ticks' = ticks (-) One(0)
           /\ last' = Op("tick-timeout", "")
           /\ UNCHANGED <<lastResult, sinceCodeFound, outputMessage, lookups,
                          countResults>>
      ELSE /\ \E ready \in BOOLEAN : sample(ready)
           /\ ticks' = (ticks (-) One(0)) (+) One(config.scanInterval)
           /\ UNCHANGED <<isScanning, activeStream, streams>>

\* tick(): lines 158-198.
tick ==
  IF ~isScanning
    THEN /\ ticks' = ticks (-) One(0)
         /\ last' = Op("other", "")
         /\ UNCHANGED <<isScanning, activeStream, streams,
                        lastResult, sinceCodeFound, outputMessage, lookups,
                        countResults>>
    ELSE IF config.scanTimeout > 0
            /\ sinceCodeFound > config.scanTimeout
      THEN /\ stop
           /\ ticks' = ticks (-) One(0)
           /\ last' = Op("tick-timeout", "")
           /\ UNCHANGED <<lastResult, sinceCodeFound, outputMessage, lookups,
                          countResults>>
      ELSE /\ \E ready \in BOOLEAN : sample(ready)
           /\ ticks' = (ticks (-) One(0)) (+) One(config.scanInterval)
           /\ UNCHANGED <<isScanning, activeStream, streams>>

Tick ==
  /\ BagIn(0, ticks)
  /\ tick
  /\ UNCHANGED <<config, acquiring, productInfo>>

\* ---------------------------------------------------------------- lookup

\* displayProduct(): lines 317-345.
displayProduct(product) ==
  IF product = NoProduct
    THEN UNCHANGED <<productInfo, outputMessage>>
    ELSE /\ productInfo' = product
         /\ outputMessage' = Msg("hidden", "")

\* The fetch for barcode completes with a product (the JSON body may be
\* null): lines 283-297.
LookupOk ==
  \E barcode \in BagToSet(lookups) : \E product \in {barcode, NoProduct} :
    /\ lookups' = lookups (-) One(barcode)
    /\ displayProduct(product)
    /\ last' = Op("other", "")
    /\ UNCHANGED <<config, isScanning, activeStream, streams, acquiring,
                   lastResult, sinceCodeFound, countResults, ticks>>

\* A failed lookup that also shuts the scanner down.
lookupFailed_stops(barcode) ==
  /\ lookups' = lookups (-) One(barcode)
  /\ outputMessage' = Msg("not-found", barcode)
  /\ stop
  /\ UNCHANGED ticks

\* The fetch for barcode fails: lines 298-310.
lookupFailed(barcode) ==
  /\ lookups' = lookups (-) One(barcode)
  /\ outputMessage' = Msg("not-found", barcode)
  /\ UNCHANGED <<isScanning, activeStream, streams, ticks>>

LookupFail ==
  \E barcode \in BagToSet(lookups) :
    /\ lookupFailed(barcode)
    /\ last' = Op("lookup-failed", barcode)
    /\ UNCHANGED <<config, acquiring, lastResult, sinceCodeFound,
                   countResults, productInfo>>

\* ----------------------------------------------------------------- clock

\* One clock unit passes: every timer has one unit less to wait.
Elapse(timers) ==
  LET left(d) == IF d > 0 THEN d - 1 ELSE 0
      count(d) == (IF d = 0 THEN CopiesIn(0, timers) ELSE 0)
                    + CopiesIn(d + 1, timers)
  IN  [d \in {left(x) : x \in BagToSet(timers)} |-> count(d)]

Advance ==
  /\ sinceCodeFound' = IF sinceCodeFound < Horizon THEN sinceCodeFound + 1
                                                   ELSE Horizon
  /\ ticks' = Elapse(ticks)
  /\ last' = Op("other", "")
  /\ UNCHANGED <<config, isScanning, activeStream, streams, acquiring,
                 lastResult, countResults, lookups, outputMessage,
                 productInfo>>

Next ==
  \/ Start
  \/ AcquireOk
  \/ AcquireFail
  \/ Stop
  \/ Tick
  \/ LookupOk
  \/ LookupFail
  \/ Advance

Spec == Init /\ [][Next]_vars

\* The scanner with the idle watchdog switched on (scanTimeout > 0), the
\* browser running every due timer callback and the clock going on.
LiveInit == Init /\ config.scanTimeout > 0

LiveSpec ==
  LiveInit /\ [][Next]_vars /\ WF_vars(Tick) /\ WF_vars(Advance)

TypeOK ==
  /\ isScanning \in BOOLEAN
  /\ activeStream \in 0..Len(streams)
  /\ \A i \in 1..Len(streams) : streams[i] \in 0..1
  /\ acquiring \in 0..MaxStarts
  /\ lastResult \in Codes \cup {""}
  /\ sinceCodeFound \in 0..Horizon
  /\ countResults \in 0..(DecodeEvery - 1)
  /\ \A c \in Codes : CopiesIn(c, lookups) <= MaxInFlight
  /\ BagCardinality(ticks) <= MaxStarts

\* ================================================================ claims

\* The step is a tick whose decode handed barcode c to processCode.
Presented(c) == last'.op \in {"accept", "suppress"} /\ last'.code = c

\* The step confirms c: the filter state is set and one lookup is dispatched.
Confirms(c) ==
  /\ lastResult' = c
  /\ sinceCodeFound' = 0
  /\ lookups' = lookups (+) One(c)

\* The step confirms nothing.
ConfirmsNothing ==
  /\ UNCHANGED <<lastResult, sinceCodeFound, outputMessage>>
  /\ lookups' = lookups

\* C1. No double acquisition: however start() is called, at most one capture
\* stream opened by the scanner is live.
C1_OneLiveSession == Cardinality(LiveStreams) <= 1

\* C2. Debounce idempotence: a candidate equal to the value confirmed last,
\* presented no later than codeValidTimeout after that confirmation (the
\* moment now - lastCodeFound = codeValidTimeout included), confirms nothing:
\* the first confirmation stays the only one.
C2_DebounceIdempotence ==
  [][\A c \in Codes :
       (Presented(c) /\ c = lastResult
          /\ sinceCodeFound <= config.codeValidTimeout)
         => ConfirmsNothing]_vars

\* A tick has just dropped "A" exactly codeValidTimeout after confirming it.
C2_Witness ==
  /\ last.op = "suppress"
  /\ last.code = "A"
  /\ lastResult = "A"
  /\ isScanning
  /\ sinceCodeFound = config.codeValidTimeout

\* C3. Cooldown re-trigger: a candidate equal to the value confirmed last,
\* presented more than codeValidTimeout after that confirmation, is confirmed
\* again and the time of the last confirmation becomes now.
C3_CooldownRetrigger ==
  [][\A c \in Codes :
       (Presented(c) /\ c = lastResult
          /\ sinceCodeFound > config.codeValidTimeout)
         => Confirms(c)]_vars

\* A tick has just confirmed "A" again, after the cooldown.
C3_Witness ==
  /\ last.op = "accept"
  /\ last.code = "A"
  /\ last.prev = "A"
  /\ last.after > config.codeValidTimeout
  /\ lastResult = "A"
  /\ sinceCodeFound = 0
  /\ BagIn("A", lookups)

\* C4. Distinct-value immediacy: a candidate that differs from the value
\* confirmed last is confirmed, whatever time has passed, none included.
C4_DistinctValueImmediacy ==
  [][\A c \in Codes :
       (Presented(c) /\ c # lastResult) => Confirms(c)]_vars

\* A tick has just confirmed "B" in the clock unit in which "A" was confirmed.
C4_Witness ==
  /\ last.op = "accept"
  /\ last.code = "B"
  /\ last.prev = "A"
  /\ last.after = 0
  /\ lastResult = "B"
  /\ BagIn("B", lookups)

\* C5. Stop is terminal for scheduling: while the scanner is off (from stop()
\* to the next start()), no step samples or decodes a frame and no step
\* confirms a code or dispatches a lookup.
C5_StopIsTerminal ==
  [][~isScanning =>
       /\ countResults' = countResults
       /\ last'.op \notin {"accept", "suppress", "decode-raised"}
       /\ \A c \in Codes : CopiesIn(c, lookups') <= CopiesIn(c, lookups)
       /\ sinceCodeFound' >= sinceCodeFound]_vars

\* stop() has run while a tick was scheduled and due, on a turn on which that
\* tick would have decoded the frame.
C5_Witness ==
  /\ ~isScanning
  /\ activeStream = 0
  /\ Len(streams) > 0
  /\ \A i \in 1..Len(streams) : streams[i] = 1
  /\ BagIn(0, ticks)
  /\ countResults % DecodeEvery = 0

\* The idle watchdog is armed and overdue: the scanner runs, a tick is
\* scheduled, and more than scanTimeout > 0 has passed without activity.
IdleOverdue ==
  /\ isScanning
  /\ ticks # EmptyBag
  /\ config.scanTimeout > 0
  /\ sinceCodeFound > config.scanTimeout

\* C6. Idle auto-stop: once the watchdog is overdue the scanner comes to be
\* stopped, and the next tick is what stops it, releasing the stream, with no
\* stop() call needed.
C6_IdleAutoStop ==
  /\ IdleOverdue ~> ~isScanning
  /\ [][(IdleOverdue /\ Tick)
          => (last'.op = "tick-timeout" /\ ~isScanning'
                /\ activeStream' = 0)]_vars

\* The watchdog has just stopped the scanner and released its stream.
C6_Witness ==
  /\ last.op = "tick-timeout"
  /\ ~isScanning
  /\ activeStream = 0
  /\ Len(streams) > 0
  /\ \A i \in 1..Len(streams) : streams[i] = 1
  /\ sinceCodeFound > config.scanTimeout

\* C7. Acquisition failure leaves the scanner stopped: when getUserMedia
\* rejects, start() ends with the scanner off, no stream held and no tick
\* scheduled.
C7_FailedStartIsStopped ==
  [][AcquireFail
       => (~isScanning' /\ activeStream' = 0 /\ ticks' = EmptyBag)]_vars

\* C8. Lookup failure does not stop the scanner: a failed lookup of barcode c
\* shows "not found" for c and leaves the running flag, the stream and the
\* scheduled ticks as they were.
C8_LookupFailureKeepsRunning ==
  [][\A c \in Codes :
       (last'.op = "lookup-failed" /\ last'.code = c)
         => /\ outputMessage' = Msg("not-found", c)
            /\ UNCHANGED <<isScanning, activeStream, streams, ticks>>]_vars

\* The lookup of "A" has just failed and the scanner is still running.
C8_Witness ==
  /\ last.op = "lookup-failed"
  /\ last.code = "A"
  /\ outputMessage = Msg("not-found", "A")
  /\ isScanning
  /\ activeStream # 0
  /\ streams[activeStream] = 0
  /\ ticks # EmptyBag

\* C9. stop() is idempotent: stop() leaves the scanner off with no stream
\* held and no track stopped twice, and on a scanner that is not running it
\* changes nothing.
C9_StopIdempotent ==
  [][Stop
       => /\ ~isScanning'
          /\ activeStream' = 0
          /\ \A i \in 1..Len(streams') : streams'[i] <= 1
          /\ ~isScanning => UNCHANGED <<isScanning, activeStream, streams>>]_vars

\* C10. start() on an active session is a no-op: it leaves the running flag,
\* the stream and the filter state (the value confirmed last and when) as
\* they were.
C10_RedundantStartIsNoOp ==
  [][(Start /\ isScanning /\ activeStream # 0)
       => UNCHANGED <<isScanning, activeStream, lastResult,
                      sinceCodeFound>>]_vars

\* C11. A successful start resets the activity time: when getUserMedia
\* resolves for a start() made on a stopped scanner, the scanner runs with no
\* value confirmed, its first tick is scheduled, and the time of the last
\* activity is now, so that the idle watchdog is not overdue whatever
\* happened before that start.
C11_StartResetsActivity ==
  [][(AcquireOk /\ isScanning /\ activeStream = 0)
       => /\ isScanning'
          /\ lastResult' = ""
          /\ BagIn(0, ticks')
          /\ sinceCodeFound' = 0
          /\ ~IdleOverdue']_vars

\* C14. Single scan loop: at most one tick is scheduled at any time.
C14_SingleTickChain == BagCardinality(ticks) <= 1

\* C15. No leaked capture stream: when the scanner is off and no acquisition
\* is pending, no stream opened by the scanner has live tracks.
C15_NoLeakedStream ==
  (~isScanning /\ acquiring = 0) => LiveStreams = {}

\* C16. Every sampled frame is activity: a tick that samples a frame on a
\* running scanner sets the time of the last activity to now, whether its
\* candidate is confirmed, suppressed or absent.
C16_SampleRefreshesActivity ==
  [][(Tick /\ isScanning /\ countResults' # countResults)
       => sinceCodeFound' = 0]_vars

\* C12. Acquisition errors reach the caller: when getUserMedia rejects, the
\* promise of start() is rejected, not fulfilled as after a successful start.
C12_AcquisitionErrorPropagates ==
  [][AcquireFail => last'.op = "start-rejected"]_vars

\* C13. One lookup per confirmation: a step that confirms c dispatches exactly
\* one lookup, of c; no other step (a suppressed or absent candidate, start,
\* stop, a completion) dispatches any, and a failed lookup is taken off the
\* pending lookups and not issued again.
C13_OneLookupPerConfirmation ==
  [][/\ last'.op = "accept" => lookups' = lookups (+) One(last'.code)
     /\ last'.op # "accept" => lookups' \sqsubseteq lookups
     /\ last'.op = "lookup-failed"
          => lookups = lookups' (+) One(last'.code)]_vars

\* The one lookup of the confirmed "A" has just failed on a running scanner
\* and no lookup is pending.
C13_Witness ==
  /\ last.op = "lookup-failed"
  /\ last.code = "A"
  /\ lastResult = "A"
  /\ lookups = EmptyBag
  /\ isScanning
  /\ BagIn(0, ticks)

\* C17. A decode failure is no candidate: a tick on which decoding raises
\* confirms nothing (the value confirmed last and its time stay, no lookup
\* is dispatched), leaves the scanner running and schedules the next tick.
C17_DecodeFailureIsNoCandidate ==
  [][last'.op = "decode-raised"
       => /\ ConfirmsNothing
          /\ isScanning /\ isScanning'
          /\ UNCHANGED <<activeStream, streams>>
          /\ ticks' = (ticks (-) One(0)) (+) One(config.scanInterval)]_vars

\* Decoding has just raised on a scanner that had confirmed "A" before; the
\* scanner runs and a tick is scheduled.
C17_Witness ==
  /\ last.op = "decode-raised"
  /\ lastResult = "A"
  /\ isScanning
  /\ ticks # EmptyBag

\* C18. Lookups do not block ticks: while lookups are pending on a running
\* scanner a due tick can run, a tick that the watchdog does not end
\* schedules the next one, and a candidate that differs from the value
\* confirmed last is confirmed and dispatched on that tick.
C18_LookupsDoNotBlockTicks ==
  /\ []((lookups # EmptyBag /\ isScanning /\ BagIn(0, ticks))
          => ENABLED Tick)
  /\ [][(lookups # EmptyBag /\ isScanning)
          => /\ (Tick /\ ~IdleOverdue)
                  => ticks' = (ticks (-) One(0)) (+) One(config.scanInterval)
             /\ \A c \in Codes :
                  (Presented(c) /\ c # lastResult) => Confirms(c)]_vars

\* A tick has just confirmed "B" while the lookup of "A" is still pending:
\* both lookups are in flight and the next tick is scheduled.
C18_Witness ==
  /\ last.op = "accept"
  /\ last.code = "B"
  /\ BagIn("A", lookups)
  /\ BagIn("B", lookups)
  /\ isScanning
  /\ ticks # EmptyBag

\* The product card of c is what the page shows, it was presented while the
\* lookup of another barcode was already pending (that lookup's dispatch
\* wrote the message that the card of c has hidden since), and that other
\* lookup is still pending: the two lookups overlap.
PresentedDuringOther(c) ==
  /\ productInfo = c
  /\ outputMessage.text = "hidden"
  /\ \E d \in Codes \ {c} : BagIn(d, lookups)

\* C19. Overlapping lookups are independent: the completion of one lookup
\* leaves the result presented for the other (its product card, with the
\* message hidden) as it is, whichever of the two completes first.
C19_IndependentLookups ==
  [][\A c \in Codes :
       (PresentedDuringOther(c) /\ (LookupOk \/ LookupFail))
         => UNCHANGED <<productInfo, outputMessage>>]_vars

\* C20. Only stop() and the idle watchdog turn the scanner off: a step on
\* which isScanning falls is a stop() call or a tick of the watchdog with
\* scanTimeout > 0 and more than scanTimeout since the last activity; with
\* scanTimeout = 0 only stop() does it, and no decode or lookup failure does.
C20_OnlyStopOrWatchdogStops ==
  [][(isScanning /\ ~isScanning')
       => \/ Stop
          \/ /\ last'.op = "tick-timeout"
             /\ config.scanTimeout > 0
             /\ sinceCodeFound > config.scanTimeout]_vars

\* With scanTimeout = 0 a tick on which decoding raised has just run, longer
\* after the last activity than every timeout, and the scanner still runs.
C20_Witness ==
  /\ config.scanTimeout = 0
  /\ sinceCodeFound = Horizon
  /\ last.op = "decode-raised"
  /\ isScanning
  /\ activeStream # 0
====
